---- MODULE Spec2Model ----
(***************************************************************************)
(* Model of vllm_ascend/distributed/parallel_state.py (the group topology  *)
(* manager: two module-level group slots and a flag) and of                *)
(* vllm_ascend/torchair/utils.py (the rank-keyed kv-cache-bytes files).    *)
(***************************************************************************)
EXTENDS Integers, Sequences, FiniteSets, TLC

\* ------------------------------------------------------------------ bounds
MaxWorld == 8
MaxDevices == 4
MaxDP == 2
MaxTP == 2
MaxCoordinators == 3
MaxRank == 1          \* kv-cache files exist for ranks 0..MaxRank
ValueStep == 12       \* byte counts are sampled as multiples of ValueStep
MaxValueIndex == 1    \* ... from 0 to MaxValueIndex * ValueStep

\* ------------------------------------------------------- program constants
\* parallel_state.py:57  "temp set local_size = 4"
LocalSize == 4

\* Python's None in a group slot; a set slot holds a reference, modelled as
\* the 1-based index of the coordinator object in `coordinators`.
None == 0

VARIABLES
    distInitialized,   \* torch.distributed.is_initialized()
    worldSize,         \* torch.distributed.get_world_size()
    deviceCount,       \* devices visible on this node (torch.npu.device_count())
    coordinators,      \* every GroupCoordinator constructed so far
    _MC2,              \* parallel_state._MC2
    _MLP_TP_GROUP,     \* parallel_state._MLP_TP_GROUP
    _enable_node_mlp,  \* parallel_state._enable_node_mlp
    ret,               \* outcome of the last call made into the module
    rootDir,           \* TORCHAIR_CACHE_DIR exists
    kvDir,             \* TORCHAIR_CACHE_DIR/.kv_cache_bytes exists
    link,              \* rank -> inode of {rank}_kv_cache_bytes, NoFile if absent
    content,           \* inode -> text of the file
    proc,              \* per process: position in its call and its locals
    cret,              \* outcome of the cache call that returned or raised in
                       \* the last step, NoCret when none did
    lastWritten        \* history: rank -> value of the last write that returned
                       \* since the cache root was last deleted; Deleted when
                       \* the rank was written before that deletion only

topoVars == <<distInitialized, worldSize, deviceCount, coordinators,
              _MC2, _MLP_TP_GROUP, _enable_node_mlp, ret>>

cacheVars == <<rootDir, kvDir, link, content, proc, cret, lastWritten>>

vars == <<topoVars, cacheVars>>

\* ------------------------------------------------------------ pure helpers
Min(a, b) == IF a < b THEN a ELSE b

\* list(range(a, b))
Range(a, b) == [k \in 1..(IF b > a THEN b - a ELSE 0) |-> a + k - 1]

\* torch.arange(n)
Arange(n) == Range(0, n)

\* variant: the rank grid split along the other axis (column-major groups)
ReshapeRowsStrided(world_size, cols) ==
    LET all_ranks == Arange(world_size)
        rows == world_size \div cols
    IN  [i \in 1..rows |-> [j \in 1..cols |-> all_ranks[(j - 1) * rows + i]]]

\* torch.arange(world_size).reshape(-1, cols).unbind(0), each row .tolist();
\* only defined when cols divides world_size (reshape raises otherwise).
ReshapeRows(world_size, cols) ==
    LET all_ranks == Arange(world_size)
    IN  [i \in 1..(world_size \div cols) |->
            [j \in 1..cols |-> all_ranks[(i - 1) * cols + j]]]

ReshapeOk(world_size, cols) == cols > 0 /\ world_size % cols = 0

\* variant: the device count is used as is, never capped by the world size
calculate_effective_local_size_uncapped(local_size, world_size) ==
    IF local_size = 0
    THEN [raised |-> "ZeroDivisionError", value |-> None]
    ELSE IF world_size % local_size # 0
    THEN [raised |-> "AssertionError", value |-> None]
    ELSE [raised |-> "none", value |-> local_size]

\* calculate_effective_local_size: [raised, value]
calculate_effective_local_size(local_size, world_size) ==
    LET effective_local_size == Min(local_size, world_size)
    IN  IF effective_local_size = 0
        THEN [raised |-> "ZeroDivisionError", value |-> None]
        ELSE IF world_size % effective_local_size # 0
        THEN [raised |-> "AssertionError", value |-> None]
        ELSE [raised |-> "none", value |-> effective_local_size]

\* the group_ranks list built by the loop of initialize_mlp_tp_group
MlpGroupRanks(world_size, local_size) ==
    LET num_local_groups == world_size \div local_size
    IN  [g \in 1..num_local_groups |->
            Range((g - 1) * local_size, g * local_size)]

\* init_model_parallel_group(group_ranks, ..., group_name): a fresh coordinator
NewCoordinator(group_ranks, group_name) ==
    [group_name |-> group_name, group_ranks |-> group_ranks, destroyed |-> 0]

\* GroupCoordinator.destroy() on the object a slot refers to
DestroyAt(coords, slot) ==
    [coords EXCEPT ![slot].destroyed = @ + 1]

\* truth value of a slot in `if _MC2:` (an object is truthy, None is not)
Truthy(slot) == slot # None

\* variant: the second test inverted (`is None` for `is not None`)
model_parallel_initialized_inverted == _MC2 # None /\ _MLP_TP_GROUP = None

\* variant: one slot set counts as initialized
model_parallel_initialized_either == _MC2 # None \/ _MLP_TP_GROUP # None

\* ---------------------------------------------------------------- queries
model_parallel_initialized == _MC2 # None /\ _MLP_TP_GROUP # None

is_enable_node_mlp == _enable_node_mlp

NoRet(op) ==
    [op |-> op, args |-> <<>>, raised |-> "none", value |-> None, early |-> FALSE,
     built |-> 0, mlp_called |-> FALSE, mlp_raised |-> "none", mlp_built |-> 0]

\* variant: the `_MLP_TP_GROUP is not None` test left out
MlpOutcomeUnguarded(slot, coords) ==
    IF ~distInitialized
    THEN [raised |-> "RuntimeError", slot |-> slot, coords |-> coords]
    ELSE LET eff == calculate_effective_local_size(LocalSize, worldSize)
         IN  IF eff.raised # "none"
             THEN [raised |-> eff.raised, slot |-> slot, coords |-> coords]
             ELSE [raised |-> "none",
                   slot   |-> Len(coords) + 1,
                   coords |-> Append(coords,
                                 NewCoordinator(MlpGroupRanks(worldSize, eff.value),
                                                "world_local"))]

\* ------------------------------------------------ initialize_mlp_tp_group
\* Outcome of the body run against a slot value and a coordinator list:
\* [raised, slot, coords].
MlpOutcome(slot, coords) ==
    IF ~distInitialized
    THEN [raised |-> "RuntimeError", slot |-> slot, coords |-> coords]
    ELSE LET eff == calculate_effective_local_size(LocalSize, worldSize)
         IN  IF eff.raised # "none"
             THEN [raised |-> eff.raised, slot |-> slot, coords |-> coords]
             ELSE IF slot # None
             THEN [raised |-> "RuntimeError", slot |-> slot, coords |-> coords]
             ELSE [raised |-> "none",
                   slot   |-> Len(coords) + 1,
                   coords |-> Append(coords,
                                 NewCoordinator(MlpGroupRanks(worldSize, eff.value),
                                                "world_local"))]

initialize_mlp_tp_group ==
    /\ Len(coordinators) < MaxCoordinators
    /\ LET out == MlpOutcome(_MLP_TP_GROUP, coordinators)
       IN  /\ _MLP_TP_GROUP' = out.slot
           /\ coordinators' = out.coords
           /\ ret' = [NoRet("initialize_mlp_tp_group") EXCEPT
                        !.raised = out.raised,
                        !.built = Len(out.coords) - Len(coordinators),
                        !.mlp_called = TRUE,
                        !.mlp_raised = out.raised,
                        !.mlp_built = Len(out.coords) - Len(coordinators)]
    /\ UNCHANGED <<distInitialized, worldSize, deviceCount, _MC2, _enable_node_mlp>>
    /\ UNCHANGED cacheVars

\* -------------------------------------------- init_ascend_model_parallel
init_ascend_model_parallel(data_parallel_size, tensor_parallel_size, enable_node_mlp) ==
    LET cols == data_parallel_size * tensor_parallel_size
        Ret  == [NoRet("init_ascend_model_parallel") EXCEPT
                   !.args = <<data_parallel_size, tensor_parallel_size, enable_node_mlp>>]
    IN
    /\ \/ model_parallel_initialized
       \/ Len(coordinators) + (IF enable_node_mlp THEN 2 ELSE 1) <= MaxCoordinators
    /\ UNCHANGED <<distInitialized, worldSize, deviceCount>>
    /\ UNCHANGED cacheVars
    /\ IF model_parallel_initialized
       THEN /\ ret' = [Ret EXCEPT !.early = TRUE]
            /\ UNCHANGED <<coordinators, _MC2, _MLP_TP_GROUP, _enable_node_mlp>>
       ELSE IF ~distInitialized
       THEN /\ ret' = [Ret EXCEPT
                         !.raised = "AssertionError"]
            /\ UNCHANGED <<coordinators, _MC2, _MLP_TP_GROUP, _enable_node_mlp>>
       ELSE IF ~ReshapeOk(worldSize, cols)
       THEN /\ ret' = [Ret EXCEPT
                         !.raised = "RuntimeError"]
            /\ UNCHANGED <<coordinators, _MC2, _MLP_TP_GROUP, _enable_node_mlp>>
       ELSE LET withMc2 == Append(coordinators,
                                  NewCoordinator(ReshapeRows(worldSize, cols), "mc2"))
                mc2     == Len(coordinators) + 1
            IN  /\ _MC2' = mc2
                /\ IF enable_node_mlp
                   THEN LET out == MlpOutcome(_MLP_TP_GROUP, withMc2)
                        IN  /\ _MLP_TP_GROUP' = out.slot
                            /\ coordinators' = out.coords
                            /\ _enable_node_mlp' =
                                  IF out.raised = "none" THEN enable_node_mlp
                                  ELSE _enable_node_mlp
                            /\ ret' = [Ret EXCEPT
                                         !.raised = out.raised,
                                         !.built = Len(out.coords) - Len(coordinators),
                                         !.mlp_called = TRUE,
                                         !.mlp_raised = out.raised,
                                         !.mlp_built = Len(out.coords) - Len(withMc2)]
                   ELSE /\ coordinators' = withMc2
                        /\ ret' = [Ret EXCEPT !.built = 1]
                        /\ UNCHANGED <<_MLP_TP_GROUP, _enable_node_mlp>>

\* variant: the slots are not reset to None after the destroy calls
destroy_keeping_slots ==
    LET afterMc2 == IF Truthy(_MC2) THEN DestroyAt(coordinators, _MC2)
                    ELSE coordinators
        afterMlp == IF Truthy(_MLP_TP_GROUP) THEN DestroyAt(afterMc2, _MLP_TP_GROUP)
                    ELSE afterMc2
    IN  /\ coordinators' = afterMlp
        /\ ret' = NoRet("destroy_ascend_model_parallel")
        /\ UNCHANGED <<distInitialized, worldSize, deviceCount, _MC2, _MLP_TP_GROUP,
                       _enable_node_mlp>>
        /\ UNCHANGED cacheVars

\* ------------------------------------------ destroy_ascend_model_parallel
destroy_ascend_model_parallel ==
    LET afterMc2 == IF Truthy(_MC2) THEN DestroyAt(coordinators, _MC2)
                    ELSE coordinators
        afterMlp == IF Truthy(_MLP_TP_GROUP) THEN DestroyAt(afterMc2, _MLP_TP_GROUP)
                    ELSE afterMc2
    IN  /\ coordinators' = afterMlp
        /\ _MC2' = None
        /\ _MLP_TP_GROUP' = None
        /\ ret' = NoRet("destroy_ascend_model_parallel")
        /\ UNCHANGED <<distInitialized, worldSize, deviceCount, _enable_node_mlp>>
        /\ UNCHANGED cacheVars

\* ---------------------------------------------------------------- getters
get_mc2_group ==
    /\ ret' = IF _MC2 # None
              THEN [NoRet("get_mc2_group") EXCEPT !.value = _MC2]
              ELSE [NoRet("get_mc2_group") EXCEPT !.raised = "AssertionError"]
    /\ UNCHANGED <<distInitialized, worldSize, deviceCount, coordinators,
                   _MC2, _MLP_TP_GROUP, _enable_node_mlp>>
    /\ UNCHANGED cacheVars

get_mlp_tp_group ==
    /\ ret' = [NoRet("get_mlp_tp_group") EXCEPT !.value = _MLP_TP_GROUP]
    /\ UNCHANGED <<distInitialized, worldSize, deviceCount, coordinators,
                   _MC2, _MLP_TP_GROUP, _enable_node_mlp>>
    /\ UNCHANGED cacheVars

\* the tensor-parallel group of vllm.distributed.parallel_state: a handle that
\* is none of the coordinators built here
get_tp_group == MaxCoordinators + 1

get_mlp_world_group ==
    /\ ret' = [NoRet("get_mlp_world_group") EXCEPT
                 !.value = IF _enable_node_mlp THEN _MLP_TP_GROUP ELSE get_tp_group]
    /\ UNCHANGED <<distInitialized, worldSize, deviceCount, coordinators,
                   _MC2, _MLP_TP_GROUP, _enable_node_mlp>>
    /\ UNCHANGED cacheVars

\* model_parallel_initialized() called: value 1 for True, 0 for False
CallModelParallelInitialized ==
    /\ ret' = [NoRet("model_parallel_initialized") EXCEPT
                 !.value = IF model_parallel_initialized THEN 1 ELSE 0]
    /\ UNCHANGED <<distInitialized, worldSize, deviceCount, coordinators,
                   _MC2, _MLP_TP_GROUP, _enable_node_mlp>>
    /\ UNCHANGED cacheVars

\* calculate_effective_local_size called with the node's device count
CallCalculateEffectiveLocalSize ==
    /\ LET r == calculate_effective_local_size(deviceCount, worldSize)
       IN  ret' = [NoRet("calculate_effective_local_size") EXCEPT
                     !.raised = r.raised, !.value = r.value]
    /\ UNCHANGED <<distInitialized, worldSize, deviceCount, coordinators,
                   _MC2, _MLP_TP_GROUP, _enable_node_mlp>>
    /\ UNCHANGED cacheVars

\* ================================================= torchair/utils.py
Ranks  == 0..MaxRank
Procs  == {1, 2}      \* two worker processes share the cache root: an flock
                      \* conflict is always between two open files
Values == {k * ValueStep : k \in 0..MaxValueIndex}
Inodes == 1..(MaxRank + 1 + Cardinality(Procs))   \* one per name or open file
NoFile == 0
NoValue == -1                            \* kv_cache_bytes = -1 (utils.py:60)
Deleted == NoValue - 1                   \* history mark, never a file's value

\* f"{kv_cache_bytes}": the decimal digits of a non-negative int
RECURSIVE Str(_)
Str(n) == IF n < 10 THEN <<n>> ELSE Str(n \div 10) \o <<n % 10>>

\* the number a text of decimal digits denotes
RECURSIVE DigitsValue(_)
DigitsValue(text) ==
    IF Len(text) = 0 THEN 0
    ELSE 10 * DigitsValue(SubSeq(text, 1, Len(text) - 1)) + text[Len(text)]

\* int(text) for a text of decimal digits: [raised, value]; int("") raises
ParseInt(text) ==
    IF Len(text) = 0
    THEN [raised |-> "ValueError", value |-> NoValue]
    ELSE [raised |-> "none", value |-> DigitsValue(text)]

\* bytes written at offset 0 of a file that holds `old`
Overwrite(old, data) ==
    IF Len(data) >= Len(old) THEN data
    ELSE data \o SubSeq(old, Len(data) + 1, Len(old))

\* variant: the file is opened without truncation (mode "r+")
Keep(old) == old

\* open(path, "w") on an existing file: O_TRUNC empties it
Truncate(old) == <<>>

IdleProc ==
    [pc |-> "idle", rank |-> 0, val |-> NoValue, fd |-> NoFile,
     lock |-> "none", raised |-> "none"]

NoCret == [op |-> "none", rank |-> 0, raised |-> "none", value |-> NoValue]

\* an inode lives while a name or an open file refers to it
Live(lnk, prc) ==
    {lnk[r] : r \in Ranks} \cup {prc[q].fd : q \in Procs}

\* the inode a new file of `rank` gets: any one that is not live
FreeInode(rank) ==
    LET free == Inodes \ Live(link, proc)
    IN  IF rank + 1 \in free THEN rank + 1
        ELSE CHOOSE i \in free : \A j \in free : i <= j

\* the text of an inode nothing refers to is gone
Reclaim(cnt, lnk, prc) ==
    LET live == Live(lnk, prc)
    IN  [i \in Inodes |-> IF i \in live THEN cnt[i] ELSE <<>>]

\* ---- write_kv_cache_bytes_to_file(rank, kv_cache_bytes), step by step
\* os.makedirs(..., exist_ok=True)
write_makedirs(p, rank, kv_cache_bytes) ==
    /\ proc[p].pc = "idle"
    /\ rootDir' = TRUE
    /\ kvDir' = TRUE
    /\ proc' = [proc EXCEPT ![p] = [IdleProc EXCEPT !.pc = "w_open", !.rank = rank,
                                                   !.val = kv_cache_bytes]]
    /\ cret' = NoCret
    /\ UNCHANGED <<link, content, lastWritten>>
    /\ UNCHANGED topoVars

\* variant: the file name does not carry the rank, every rank uses one file
write_open_one_file_for_all(p) ==
    /\ proc[p].pc = "w_open"
    /\ IF ~kvDir
       THEN /\ proc' = [proc EXCEPT ![p] = IdleProc]
            /\ cret' = [NoCret EXCEPT !.op = "write", !.rank = proc[p].rank,
                                      !.raised = "FileNotFoundError"]
            /\ UNCHANGED <<link, content>>
       ELSE LET used == {link[r] : r \in Ranks} \ {NoFile}
                i    == IF used = {} THEN FreeInode(proc[p].rank)
                        ELSE CHOOSE j \in used : TRUE
            IN  /\ link' = [link EXCEPT ![proc[p].rank] = i]
                /\ content' = [content EXCEPT ![i] = Truncate(@)]
                /\ proc' = [proc EXCEPT ![p].pc = "w_flock", ![p].fd = i]
                /\ cret' = NoCret
    /\ UNCHANGED <<rootDir, kvDir, lastWritten>>
    /\ UNCHANGED topoVars

\* open(kv_cache_bytes_file, "w"): create or truncate
write_open(p) ==
    /\ proc[p].pc = "w_open"
    /\ IF ~kvDir
       THEN /\ proc' = [proc EXCEPT ![p] = IdleProc]
            /\ cret' = [NoCret EXCEPT !.op = "write", !.rank = proc[p].rank,
                                      !.raised = "FileNotFoundError"]
            /\ UNCHANGED <<link, content>>
       ELSE LET r  == proc[p].rank
                i  == IF link[r] = NoFile THEN FreeInode(r) ELSE link[r]
            IN  /\ link' = [link EXCEPT ![r] = i]
                /\ content' = [content EXCEPT ![i] = Truncate(@)]
                /\ proc' = [proc EXCEPT ![p].pc = "w_flock", ![p].fd = i]
                /\ cret' = NoCret
    /\ UNCHANGED <<rootDir, kvDir, lastWritten>>
    /\ UNCHANGED topoVars

\* fcntl.flock(f, LOCK_EX): waits while another open file holds any lock
write_flock(p) ==
    /\ proc[p].pc = "w_flock"
    /\ \A q \in Procs \ {p} : proc[q].fd = proc[p].fd => proc[q].lock = "none"
    /\ proc' = [proc EXCEPT ![p].pc = "w_write", ![p].lock = "ex"]
    /\ cret' = NoCret
    /\ UNCHANGED <<rootDir, kvDir, link, content, lastWritten>>
    /\ UNCHANGED topoVars

\* f.write(f"{kv_cache_bytes}") fills the file object's buffer, then the
\* lock's context manager runs fcntl.flock(f, LOCK_UN)
write_unlock(p) ==
    /\ proc[p].pc = "w_write"
    /\ proc' = [proc EXCEPT ![p].pc = "w_close", ![p].lock = "none"]
    /\ cret' = NoCret
    /\ UNCHANGED <<rootDir, kvDir, link, content, lastWritten>>
    /\ UNCHANGED topoVars

\* leaving `with open(...)`: close() flushes the buffer to the file
write_close(p) ==
    /\ proc[p].pc = "w_close"
    /\ LET i == proc[p].fd
           flushed == [content EXCEPT ![i] = Overwrite(@, Str(proc[p].val))]
       IN  /\ proc' = [proc EXCEPT ![p] = IdleProc]
           /\ content' = Reclaim(flushed, link, proc')
           /\ cret' = [NoCret EXCEPT !.op = "write", !.rank = proc[p].rank]
           /\ lastWritten' = [lastWritten EXCEPT ![proc[p].rank] = proc[p].val]
    /\ UNCHANGED <<rootDir, kvDir, link>>
    /\ UNCHANGED topoVars

\* variant: a missing file is swallowed and the initial kv_cache_bytes = -1
\* is returned
read_open_returns_default(p, rank) ==
    /\ proc[p].pc = "idle"
    /\ IF ~kvDir \/ link[rank] = NoFile
       THEN /\ proc' = [proc EXCEPT ![p] = IdleProc]
            /\ cret' = [NoCret EXCEPT !.op = "read", !.rank = rank]
       ELSE /\ proc' = [proc EXCEPT ![p] = [IdleProc EXCEPT !.pc = "r_flock",
                                              !.rank = rank, !.fd = link[rank]]]
            /\ cret' = NoCret
    /\ UNCHANGED <<rootDir, kvDir, link, content, lastWritten>>
    /\ UNCHANGED topoVars

\* ---- read_kv_cache_bytes_from_file(rank), step by step
\* open(kv_cache_bytes_file, "r")
read_open(p, rank) ==
    /\ proc[p].pc = "idle"
    /\ IF ~kvDir \/ link[rank] = NoFile
       THEN /\ proc' = [proc EXCEPT ![p] = IdleProc]
            /\ cret' = [NoCret EXCEPT !.op = "read", !.rank = rank,
                                      !.raised = "FileNotFoundError"]
       ELSE /\ proc' = [proc EXCEPT ![p] = [IdleProc EXCEPT !.pc = "r_flock",
                                              !.rank = rank, !.fd = link[rank]]]
            /\ cret' = NoCret
    /\ UNCHANGED <<rootDir, kvDir, link, content, lastWritten>>
    /\ UNCHANGED topoVars

\* fcntl.flock(f, LOCK_SH): waits while another open file holds LOCK_EX
read_flock(p) ==
    /\ proc[p].pc = "r_flock"
    /\ \A q \in Procs \ {p} : proc[q].fd = proc[p].fd => proc[q].lock # "ex"
    /\ proc' = [proc EXCEPT ![p].pc = "r_readline", ![p].lock = "sh"]
    /\ cret' = NoCret
    /\ UNCHANGED <<rootDir, kvDir, link, content, lastWritten>>
    /\ UNCHANGED topoVars

\* variant: the shared lock is not released when int() raises
read_readline_keeps_lock_on_error(p) ==
    /\ proc[p].pc = "r_readline"
    /\ LET parsed == ParseInt(content[proc[p].fd])
       IN  proc' = [proc EXCEPT ![p].pc = "r_close",
                                ![p].lock = IF parsed.raised = "none" THEN "none"
                                            ELSE "sh",
                                ![p].val = parsed.value,
                                ![p].raised = parsed.raised]
    /\ cret' = NoCret
    /\ UNCHANGED <<rootDir, kvDir, link, content, lastWritten>>
    /\ UNCHANGED topoVars

\* kv_cache_bytes = int(f.readline()), then fcntl.flock(f, LOCK_UN) on the
\* way out of the lock's context manager, whether int() raised or not
read_readline(p) ==
    /\ proc[p].pc = "r_readline"
    /\ LET parsed == ParseInt(content[proc[p].fd])
       IN  proc' = [proc EXCEPT ![p].pc = "r_close", ![p].lock = "none",
                                ![p].val = parsed.value,
                                ![p].raised = parsed.raised]
    /\ cret' = NoCret
    /\ UNCHANGED <<rootDir, kvDir, link, content, lastWritten>>
    /\ UNCHANGED topoVars

\* leaving `with open(...)`: close(), then return kv_cache_bytes or re-raise
read_close(p) ==
    /\ proc[p].pc = "r_close"
    /\ proc' = [proc EXCEPT ![p] = IdleProc]
    /\ content' = Reclaim(content, link, proc')
    /\ cret' = [NoCret EXCEPT !.op = "read", !.rank = proc[p].rank,
                              !.raised = proc[p].raised, !.value = proc[p].val]
    /\ UNCHANGED <<rootDir, kvDir, link, lastWritten>>
    /\ UNCHANGED topoVars

\* ---- the directory operations
\* os.listdir of the kv-byte directory
KvFileList == {r \in Ranks : link[r] # NoFile}

check_kv_cache_bytes_cache_exist(p) ==
    /\ proc[p].pc = "idle"
    /\ cret' = [NoCret EXCEPT !.op = "check_kv_cache_bytes_cache_exist",
                              !.value = IF kvDir /\ KvFileList # {} THEN 1 ELSE 0]
    /\ UNCHANGED <<rootDir, kvDir, link, content, proc, lastWritten>>
    /\ UNCHANGED topoVars

\* the root directory's only entry here is the kv-byte directory
check_torchair_cache_exist(p) ==
    /\ proc[p].pc = "idle"
    /\ cret' = [NoCret EXCEPT !.op = "check_torchair_cache_exist",
                              !.value = IF rootDir /\ kvDir THEN 1 ELSE 0]
    /\ UNCHANGED <<rootDir, kvDir, link, content, proc, lastWritten>>
    /\ UNCHANGED topoVars

\* variant: only the kv-byte directory is removed, the root stays
delete_kv_dir_only(p) ==
    /\ proc[p].pc = "idle"
    /\ IF rootDir
       THEN /\ rootDir' = rootDir
            /\ kvDir' = FALSE
            /\ link' = [r \in Ranks |-> NoFile]
            /\ content' = Reclaim(content, link', proc)
            /\ lastWritten' = [r \in Ranks |-> IF lastWritten[r] = NoValue
                                                THEN NoValue ELSE Deleted]
       ELSE UNCHANGED <<rootDir, kvDir, link, content, lastWritten>>
    /\ cret' = [NoCret EXCEPT !.op = "delete_torchair_cache_file"]
    /\ UNCHANGED proc
    /\ UNCHANGED topoVars

\* shutil.rmtree of the root: every name under it goes, open files stay open
delete_torchair_cache_file(p) ==
    /\ proc[p].pc = "idle"
    /\ IF rootDir
       THEN /\ rootDir' = FALSE
            /\ kvDir' = FALSE
            /\ link' = [r \in Ranks |-> NoFile]
            /\ content' = Reclaim(content, link', proc)
            /\ lastWritten' = [r \in Ranks |-> IF lastWritten[r] = NoValue
                                                THEN NoValue ELSE Deleted]
       ELSE UNCHANGED <<rootDir, kvDir, link, content, lastWritten>>
    /\ cret' = [NoCret EXCEPT !.op = "delete_torchair_cache_file"]
    /\ UNCHANGED proc
    /\ UNCHANGED topoVars

\* ------------------------------------------------------------ specification
TopologyStart ==
    /\ coordinators = <<>>
    /\ _MC2 = None
    /\ _MLP_TP_GROUP = None
    /\ _enable_node_mlp = FALSE
    /\ ret = NoRet("start")

CacheStart ==
    /\ kvDir = FALSE
    /\ link = [r \in Ranks |-> NoFile]
    /\ content = [i \in Inodes |-> <<>>]
    /\ proc = [p \in Procs |-> IdleProc]
    /\ cret = NoCret
    /\ lastWritten = [r \in Ranks |-> NoValue]

\* one worker process of a distributed job; the cache root is not touched
Init ==
    /\ distInitialized \in BOOLEAN
    /\ worldSize \in 1..MaxWorld
    /\ deviceCount \in 1..MaxDevices
    /\ TopologyStart
    /\ rootDir = FALSE
    /\ CacheStart

Init_ascend_model_parallel ==
    \E dp \in 1..MaxDP, tp \in 1..MaxTP, enable \in BOOLEAN :
        init_ascend_model_parallel(dp, tp, enable)

Next ==
    \/ Init_ascend_model_parallel
    \/ initialize_mlp_tp_group
    \/ destroy_ascend_model_parallel
    \/ get_mc2_group
    \/ get_mlp_tp_group
    \/ get_mlp_world_group
    \/ CallModelParallelInitialized
    \/ CallCalculateEffectiveLocalSize

Spec == Init /\ [][Next]_vars

\* a job that never asks for the node-local MLP group: every init call passes
\* enable_node_mlp=False and initialize_mlp_tp_group is not called directly
Init_without_node_mlp ==
    \E dp \in 1..MaxDP, tp \in 1..MaxTP :
        init_ascend_model_parallel(dp, tp, FALSE)

PlainNext ==
    \/ Init_without_node_mlp
    \/ destroy_ascend_model_parallel
    \/ CallModelParallelInitialized

PlainSpec == Init /\ [][PlainNext]_vars

\* the cache root before any write; the group slots are not touched
CacheInit ==
    /\ distInitialized = FALSE
    /\ worldSize = 1
    /\ deviceCount = 1
    /\ TopologyStart
    /\ rootDir \in BOOLEAN
    /\ CacheStart

AllIdle == \A q \in Procs : proc[q].pc = "idle"

Write_start(p) ==
    \E rank \in Ranks, kv_cache_bytes \in Values :
        write_makedirs(p, rank, kv_cache_bytes)

Read_start(p) == \E rank \in Ranks : read_open(p, rank)

\* the steps that continue a call already begun
CacheStep(p) ==
    \/ write_open(p)
    \/ write_flock(p)
    \/ write_unlock(p)
    \/ write_close(p)
    \/ read_flock(p)
    \/ read_readline(p)
    \/ read_close(p)

\* calls made one after the other: a call begins only when none is under way
SeqNext ==
    \E p \in Procs :
        \/ AllIdle /\ Write_start(p)
        \/ AllIdle /\ Read_start(p)
        \/ AllIdle /\ check_kv_cache_bytes_cache_exist(p)
        \/ AllIdle /\ check_torchair_cache_exist(p)
        \/ AllIdle /\ delete_torchair_cache_file(p)
        \/ CacheStep(p)

SeqSpec == CacheInit /\ [][SeqNext]_vars

\* the discipline of the cache: one writer at a time for a rank's file
SoleWriter(p, rank) ==
    \A q \in Procs \ {p} :
        proc[q].pc \in {"w_open", "w_flock", "w_write", "w_close"}
            => proc[q].rank # rank

\* reads and writes of several processes interleaved step by step
CacheNext ==
    \E p \in Procs :
        \/ \E rank \in Ranks, kv_cache_bytes \in Values :
              SoleWriter(p, rank) /\ write_makedirs(p, rank, kv_cache_bytes)
        \/ Read_start(p)
        \/ CacheStep(p)

CacheSpec == CacheInit /\ [][CacheNext]_vars

\* ================================================================ claims
IsInit == "init_ascend_model_parallel"
IsMlpInit == "initialize_mlp_tp_group"
IsDestroy == "destroy_ascend_model_parallel"

\* contiguous block i (1-based) of width g: ranks [(i-1)*g, i*g) in order
Block(i, g) == [j \in 1..g |-> (i - 1) * g + j - 1]

\* how many places of the partition P hold rank r
Occurrences(P, r) ==
    Cardinality({ij \in {<<i, j>> : i \in DOMAIN P, j \in 1..MaxWorld + 1} :
                    ij[2] \in DOMAIN P[ij[1]] /\ P[ij[1]][ij[2]] = r})

\* P is the partition of [0, world_size) into contiguous blocks of width g
ContiguousPartition(P, world_size, g) ==
    /\ Len(P) = world_size \div g
    /\ \A i \in DOMAIN P : P[i] = Block(i, g)
    /\ \A r \in 0..(world_size - 1) : Occurrences(P, r) = 1

\* C1: when both group slots are set, a call of init_ascend_model_parallel with
\* any arguments returns at once: no coordinator is constructed, nothing is
\* raised, and both slots and the flag keep their values.
C1_InitNoOpWhenBothSet ==
    [][(ret'.op = IsInit /\ _MC2 # None /\ _MLP_TP_GROUP # None)
        => /\ ret'.raised = "none"
           /\ ret'.built = 0
           /\ UNCHANGED <<coordinators, _MC2, _MLP_TP_GROUP, _enable_node_mlp>>]_vars

C1_Witness ==
    /\ ret.op = IsInit /\ ret.early
    /\ _MC2 # None /\ _MLP_TP_GROUP # None /\ _enable_node_mlp

\* C2: whenever exactly one of the two slots is set, a further call of
\* init_ascend_model_parallel raises and constructs no coordinator.
C2_ReinitWithOneSlotSetRaises ==
    [][(ret'.op = IsInit /\ ((_MC2 # None) # (_MLP_TP_GROUP # None)))
        => (ret'.raised # "none" /\ coordinators' = coordinators)]_vars

\* C3: whenever data_parallel_size * tensor_parallel_size divides the world
\* size, the group_ranks that init_ascend_model_parallel hands to the
\* constructor of the mc2 group are the world_size / (dp*tp) contiguous blocks
\* of width dp*tp, in order, and hold every rank of [0, world_size) exactly
\* once; a primary group is only ever built for such sizes.
C3_PrimaryPartition ==
    ret.op = IsInit =>
        LET g == ret.args[1] * ret.args[2]
        IN  /\ (~ret.early /\ distInitialized /\ worldSize % g = 0)
                => /\ ret.built >= 1
                   /\ _MC2 # None
                   /\ coordinators[_MC2].group_name = "mc2"
                   /\ ContiguousPartition(coordinators[_MC2].group_ranks, worldSize, g)
            /\ ret.built >= 1 => worldSize % g = 0

C3_Witness ==
    /\ ret.op = IsInit /\ ret.built >= 1
    /\ worldSize = 8 /\ ret.args[1] = 2 /\ ret.args[2] = 2
    /\ coordinators[_MC2].group_ranks = << <<0, 1, 2, 3>>, <<4, 5, 6, 7>> >>

\* C4: whenever initialize_mlp_tp_group succeeds, the group_ranks it hands to
\* the constructor are the contiguous blocks of width
\* calculate_effective_local_size(device count of the node, world size).
C4_LocalPartitionFollowsDeviceCount ==
    (ret.mlp_called /\ ret.mlp_raised = "none") =>
        LET eff == calculate_effective_local_size(deviceCount, worldSize)
        IN  /\ eff.raised = "none"
            /\ ContiguousPartition(coordinators[_MLP_TP_GROUP].group_ranks,
                                   worldSize, eff.value)

\* C5: calculate_effective_local_size(local_size, world_size) returns
\* min(local_size, world_size) when that divides world_size and raises
\* AssertionError otherwise; a returned value always divides world_size.
C5_EffectiveLocalSize ==
    ret.op = "calculate_effective_local_size" =>
        LET m == Min(deviceCount, worldSize)
        IN  /\ worldSize % m = 0 => (ret.raised = "none" /\ ret.value = m)
            /\ worldSize % m # 0 => ret.raised = "AssertionError"
            /\ ret.raised = "none" => worldSize % ret.value = 0

C5_Witness ==
    /\ ret.op = "calculate_effective_local_size"
    /\ worldSize = 6 /\ deviceCount = 4
    /\ ret.raised = "AssertionError"

\* C6: a call of initialize_mlp_tp_group made while _MLP_TP_GROUP is set
\* raises, constructs no coordinator and leaves the handle in the slot.
C6_SecondMlpInitRaises ==
    [][(ret'.mlp_called /\ _MLP_TP_GROUP # None)
        => /\ ret'.mlp_raised # "none"
           /\ ret'.mlp_built = 0
           /\ _MLP_TP_GROUP' = _MLP_TP_GROUP
           /\ (ret'.op = IsMlpInit => coordinators' = coordinators)]_vars

C6_Witness ==
    /\ ret.op = IsMlpInit /\ ret.raised = "RuntimeError"
    /\ distInitialized
    /\ _MLP_TP_GROUP # None
    /\ coordinators[_MLP_TP_GROUP].destroyed = 0

\* C7: destroy_ascend_model_parallel leaves both slots unset (so
\* model_parallel_initialized is false), calls destroy() once on each handle
\* that was in a slot and on no other coordinator, changes nothing else, and
\* does nothing at all when both slots are already unset; no coordinator is
\* ever destroyed twice.
C7_DestroyStep ==
    ret'.op = IsDestroy =>
        /\ _MC2' = None /\ _MLP_TP_GROUP' = None
        /\ ~(_MC2' # None /\ _MLP_TP_GROUP' # None)
        /\ Len(coordinators') = Len(coordinators)
        /\ \A i \in DOMAIN coordinators :
              /\ coordinators'[i].destroyed =
                    coordinators[i].destroyed
                      + (IF i = _MC2 THEN 1 ELSE 0)
                      + (IF i = _MLP_TP_GROUP THEN 1 ELSE 0)
              /\ coordinators'[i].group_ranks = coordinators[i].group_ranks
        /\ UNCHANGED <<_enable_node_mlp, distInitialized, worldSize>>
        /\ ret'.raised = "none"
        /\ (_MC2 = None /\ _MLP_TP_GROUP = None /\ ret.op = IsDestroy)
              => UNCHANGED vars

C7_DestroyIdempotent ==
    /\ [][C7_DestroyStep]_vars
    /\ [](\A i \in DOMAIN coordinators : coordinators[i].destroyed <= 1)

C7_Witness ==
    /\ ret.op = IsDestroy
    /\ _MC2 = None /\ _MLP_TP_GROUP = None
    /\ Len(coordinators) >= 2
    /\ \A i \in DOMAIN coordinators : coordinators[i].destroyed = 1

\* the ranks whose file was written, by a call that returned, since the cache
\* root was last deleted
WrittenRanks == {r \in Ranks : lastWritten[r] \in Values}

\* C8: a read of rank r that follows a returned write of v to r, with no write
\* to r and no deletion of the cache root in between, returns v; after several
\* writes it returns the value of the last one.
C8_RoundTrip ==
    (cret.op = "read" /\ cret.rank \in WrittenRanks)
        => (cret.raised = "none" /\ cret.value = lastWritten[cret.rank])

C8_Witness ==
    /\ cret.op = "read" /\ cret.raised = "none"
    /\ cret.value = MaxValueIndex * ValueStep /\ cret.value >= 10
    /\ lastWritten[cret.rank] = cret.value
    /\ \E r \in Ranks : r # cret.rank /\ lastWritten[r] \in Values
                        /\ lastWritten[r] # cret.value

\* C9: over calls made one after the other on one cache root,
\* check_kv_cache_bytes_cache_exist is false before any write, true once a
\* write of any rank has returned, and false again after
\* delete_torchair_cache_file, which removes the root with the kv-byte
\* directory and changes nothing when the root is absent; both checks are
\* false when their directory is absent or empty.
C9_CheckResults ==
    /\ cret.op = "check_kv_cache_bytes_cache_exist"
          => /\ cret.value = 1 <=> WrittenRanks # {}
             /\ (~kvDir \/ KvFileList = {}) => cret.value = 0
    /\ cret.op = "check_torchair_cache_exist"
          => ((~rootDir \/ ~kvDir) => cret.value = 0)
    /\ cret.op = "delete_torchair_cache_file"
          => (~rootDir /\ ~kvDir /\ KvFileList = {} /\ WrittenRanks = {})

C9_DeleteStep ==
    (cret'.op = "delete_torchair_cache_file" /\ ~rootDir)
        => UNCHANGED <<rootDir, kvDir, link, content, proc, lastWritten>>

C9_ExistsFollowsWritesAndDelete ==
    /\ [](C9_CheckResults)
    /\ [][C9_DeleteStep]_vars

C9_Witness ==
    /\ cret.op = "check_kv_cache_bytes_cache_exist" /\ cret.value = 0
    /\ ~rootDir
    /\ \E r \in Ranks : lastWritten[r] = Deleted

\* C10: get_mc2_group and get_mlp_tp_group raise when their slot is unset and
\* never hand None to the caller.
C10_GettersRaiseWhenUnset ==
    /\ (ret.op = "get_mc2_group" /\ _MC2 = None) => ret.raised # "none"
    /\ (ret.op = "get_mlp_tp_group" /\ _MLP_TP_GROUP = None) => ret.raised # "none"

\* C11: model_parallel_initialized() answers True exactly when both slots are
\* set; over init calls that all pass enable_node_mlp=False and destroy calls
\* the local-MLP slot is never set, so the answer is False in every state,
\* also right after an init that built the mc2 group.
C11_PlainSetupNeverInitialized ==
    /\ _MLP_TP_GROUP = None
    /\ ~model_parallel_initialized
    /\ ret.op = "model_parallel_initialized"
          => /\ ret.value = 1 <=> (_MC2 # None /\ _MLP_TP_GROUP # None)
             /\ ret.value = 0

C11_Witness ==
    /\ ret.op = "model_parallel_initialized" /\ ret.value = 0
    /\ _MC2 # None /\ coordinators[_MC2].destroyed = 0
    /\ \E i \in DOMAIN coordinators : coordinators[i].destroyed = 1

\* C12: get_mlp_world_group called right after an init_ascend_model_parallel
\* that ran (not the both-slots-set no-op) and returned gives the local-MLP
\* handle if that init was called with enable_node_mlp=True and the
\* tensor-parallel group of vllm if it was called with enable_node_mlp=False,
\* whatever init and destroy calls came before.
C12_EffectiveGroupFollowsLastInit ==
    [][(/\ ret.op = IsInit /\ ~ret.early /\ ret.raised = "none"
        /\ ret'.op = "get_mlp_world_group")
        => IF ret.args[3]
           THEN ret'.value = _MLP_TP_GROUP /\ ret'.value # None
           ELSE ret'.value = get_tp_group]_vars

\* C13: a process that is not inside a read or a write holds no lock: when
\* either call has returned or raised (a parse error on read included) its
\* lock has been released, and a lock is only ever held by a call that has
\* taken it and not yet left the lock's context manager.
C13_NoLockAfterReturn ==
    \A p \in Procs :
        /\ proc[p].pc = "idle" => (proc[p].lock = "none" /\ proc[p].fd = NoFile)
        /\ proc[p].lock = "ex" <=> proc[p].pc = "w_write"
        /\ proc[p].lock = "sh" <=> proc[p].pc = "r_readline"
        /\ proc[p].pc \in {"w_close", "r_close"} => proc[p].lock = "none"

\* a read has just raised its parse error while the other process, the writer
\* whose open() emptied the file, waits for the lock
C13_Witness ==
    /\ cret.op = "read" /\ cret.raised = "ValueError"
    /\ \E p, q \in Procs :
          /\ proc[p].pc = "idle" /\ proc[p].lock = "none"
          /\ proc[q].pc = "w_flock" /\ proc[q].rank = cret.rank

\* C14: over calls made one after the other, a read of rank r begun when no
\* write of r has returned since the start or since the last deletion of the
\* cache root ends in that same step with FileNotFoundError: it waits for
\* nobody, returns no value (not the initial -1 either), and leaves the
\* directories, the files and their texts as they were.
C14_ReadOfUnwrittenRankRaises ==
    [][\A p \in Procs, r \in Ranks :
         (/\ AllIdle /\ lastWritten[r] \notin Values
          /\ \/ proc'[p].pc = "r_flock" /\ proc'[p].rank = r
             \/ cret'.op = "read" /\ cret'.rank = r)
         => /\ cret'.op = "read" /\ cret'.rank = r
            /\ cret'.raised = "FileNotFoundError"
            /\ UNCHANGED <<rootDir, kvDir, link, content, proc, lastWritten>>]_vars

\* the read of a rank written before the deletion, failing while the file of
\* another rank, written after it, is there
C14_Witness ==
    /\ cret.op = "read" /\ cret.raised = "FileNotFoundError"
    /\ lastWritten[cret.rank] = Deleted
    /\ rootDir /\ kvDir
    /\ \E r \in Ranks : lastWritten[r] \in Values /\ link[r] # NoFile

\* the values of the writes of `rank` that are under way
WritesUnderWay(rank) ==
    {proc[q].val : q \in {w \in Procs : /\ proc[w].rank = rank
                                         /\ proc[w].pc \in {"w_open", "w_flock",
                                                            "w_write", "w_close"}}}

\* C15: with one writer at a time for a rank's file, a read that parses the
\* file after some write of that rank has returned gets the value of the last
\* returned write or the value of the write under way; it never finds the
\* file empty and never raises a parse error.
C15_OverwriteAtomicToReaders ==
    [][\A p \in Procs :
         (/\ proc[p].pc = "r_readline" /\ proc'[p].pc = "r_close"
          /\ lastWritten[proc[p].rank] \in Values)
         => /\ proc'[p].raised = "none"
            /\ proc'[p].val \in {lastWritten[proc[p].rank]}
                                   \cup WritesUnderWay(proc[p].rank)]_vars

\* C16: in every state reached by init_ascend_model_parallel,
\* initialize_mlp_tp_group and destroy_ascend_model_parallel calls, the flag
\* _enable_node_mlp being True implies that _MLP_TP_GROUP is set; after
\* destroy both slots are unset and the flag is False again, and
\* get_mlp_world_group never returns None.
C16_FlagImpliesLocalSlot ==
    /\ _enable_node_mlp => _MLP_TP_GROUP # None
    /\ ret.op = IsDestroy
          => (_MC2 = None /\ _MLP_TP_GROUP = None /\ ~_enable_node_mlp)
    /\ ret.op = "get_mlp_world_group" => ret.value # None

\* the coordinators that were constructed and not destroyed
LiveHandles == {i \in DOMAIN coordinators : coordinators[i].destroyed = 0}

\* C17: in every state reached by init_ascend_model_parallel and
\* destroy_ascend_model_parallel calls, each coordinator that was constructed
\* and not destroyed is the one its slot holds, so at most one mc2 and one
\* world_local coordinator are live, and none is live after destroy.
C17_NoOrphanedHandle ==
    /\ \A i \in LiveHandles :
          \/ coordinators[i].group_name = "mc2" /\ _MC2 = i
          \/ coordinators[i].group_name = "world_local" /\ _MLP_TP_GROUP = i
    /\ \A name \in {"mc2", "world_local"} :
          Cardinality({i \in LiveHandles : coordinators[i].group_name = name}) <= 1
    /\ ret.op = IsDestroy => LiveHandles = {}

\* C18: an init_ascend_model_parallel call that raises, made with both slots
\* unset and the flag False, leaves both slots unset and the flag False and
\* constructs no coordinator, whether it raises for an uninitialized
\* torch.distributed or for a world size the effective local size does not
\* divide.
C18_FailedInitChangesNothing ==
    [][(/\ ret'.op = IsInit /\ ret'.raised # "none"
        /\ _MC2 = None /\ _MLP_TP_GROUP = None /\ ~_enable_node_mlp)
        => /\ _MC2' = None /\ _MLP_TP_GROUP' = None /\ ~_enable_node_mlp'
           /\ coordinators' = coordinators
           /\ ret'.built = 0]_vars

\* process p is inside write_kv_cache_bytes_to_file
Writing(p) == proc[p].pc \in {"w_open", "w_flock", "w_write", "w_close"}

\* what the cache holds for a rank: whether its file is there, and its text
StoredText(rank) ==
    [there |-> link[rank] # NoFile,
     text  |-> IF link[rank] = NoFile THEN <<>> ELSE content[link[rank]]]

\* no step of a write of one rank changes what is stored for another rank
C19_WriteFrame ==
    \A p \in Procs, r \in Ranks :
        (/\ Writing(p) \/ Writing(p)'
         /\ proc'[p] # proc[p]
         /\ r # (IF Writing(p) THEN proc[p].rank ELSE proc'[p].rank))
        => /\ StoredText(r)' = StoredText(r)
           /\ lastWritten'[r] = lastWritten[r]

\* a call that asks for its lock while the other process is inside a call on
\* another rank gets it at once
C19_NotBlocked ==
    \A p, q \in Procs :
        (p # q /\ proc[q].pc # "idle" /\ proc[p].rank # proc[q].rank)
        => /\ proc[p].pc = "w_flock" => ENABLED write_flock(p)
           /\ proc[p].pc = "r_flock" => ENABLED read_flock(p)
           /\ proc[p].fd # NoFile => proc[p].fd # proc[q].fd

\* C19: a write of rank r changes the file of rank r only: the file and text
\* of every other rank, or their absence, stay as they were, and a reader or
\* writer of one rank never waits for the lock because of a reader or writer
\* of another rank.
C19_RanksDoNotInterfere ==
    /\ [](C19_NotBlocked)
    /\ [][C19_WriteFrame]_vars

\* a writer of rank 1 holds its exclusive lock while a reader of rank 0, a
\* rank written before, holds its shared lock
C19_Witness ==
    \E p, q \in Procs :
        /\ proc[p].pc = "w_write" /\ proc[p].lock = "ex" /\ proc[p].rank = 1
        /\ proc[q].pc = "r_readline" /\ proc[q].lock = "sh" /\ proc[q].rank = 0
        /\ lastWritten[0] \in Values
        /\ StoredText(0).text = Str(lastWritten[0])

====
